---- MODULE Spec2Model ----
(***************************************************************************)
(* Model of read_fillet/split_reads_on_adapter.py: construction of the     *)
(* junction motifs (build_targets), selection of the best match            *)
(* (find_mid_adaptor), deduplication of match locations, the per-read      *)
(* split decision of process_file, and the fan-out / fan-in of split.      *)
(*                                                                         *)
(* Strings are sequences of one-character strings.  Python's None is the   *)
(* integer None below where an int is optional, and NoneStr where a        *)
(* string is optional.                                                     *)
(***************************************************************************)
EXTENDS Integers, Sequences, FiniteSets, TLC

VARIABLES
    call,                 \* pure functions: the function called and its arguments
    ret,                  \* pure functions: "called", then the value returned
    args,                 \* split: the arguments of the call
    dir,                  \* split: the output directory on disk
    pc,                   \* split: position of the orchestrator
    stdout,               \* split: lines printed
    targets,              \* split: local targets
    edit_threshold,       \* split: local edit_threshold
    edited_reads,         \* split: process-wide outcome set
    unedited_reads,       \* split: process-wide outcome set
    split_multiple_times, \* split: process-wide outcome set
    fastxs,               \* split: the input files, in natsorted order
    task,                 \* one future per input file (executor.map)
    nres,                 \* split: number of results consumed from the iterator
    pkl                   \* outcome files written, in order

vars == <<call, ret, args, dir, pc, stdout, targets, edit_threshold, edited_reads,
          unedited_reads, split_multiple_times, fastxs, task, nres, pkl>>

runvars == <<args, dir, pc, stdout, targets, edit_threshold, edited_reads,
             unedited_reads, split_multiple_times, fastxs, task, nres, pkl>>

(***************************************************************************)
(* Python values                                                           *)
(***************************************************************************)
\* Python's None where an integer is optional: below every offset and length.
None == -1000000

\* Python's None where a string is optional (no string over the base alphabet).
NoneStr == <<"None">>

Min(a, b) == IF a < b THEN a ELSE b

Max(a, b) == IF a > b THEN a ELSE b

\* A slice bound i of a sequence of length n, clamped as Python clamps it.
PyBound(i, n, dflt) ==
    IF i = None THEN dflt
    ELSE IF i < 0 THEN Max(i + n, 0)
    ELSE Min(i, n)

\* s[lo:hi]
PySlice(s, lo, hi) ==
    LET n == Len(s)
        a == PyBound(lo, n, 0)
        b == PyBound(hi, n, n)
    IN  IF a >= b THEN <<>> ELSE SubSeq(s, a + 1, b)

\* 'N' * n
Repeat(c, n) == SubSeq([i \in 1..Max(n, 0) |-> c], 1, Max(n, 0))

Reverse(s) == SubSeq([i \in 1..Len(s) |-> s[Len(s) + 1 - i]], 1, Len(s))

Complement(c) ==
    CASE c = "A" -> "T"
      [] c = "C" -> "G"
      [] c = "G" -> "C"
      [] c = "T" -> "A"
      [] OTHER -> c

rev_comp(seq) == Reverse([i \in 1..Len(seq) |-> Complement(seq[i])])

(***************************************************************************)
(* Module constants                                                        *)
(***************************************************************************)
EDIT_THRESHOLDS == [PCR |-> 45, Native |-> 9]

mask_size_default_head == 5

mask_size_default_tail == 14

mask_size_default_N == 11

HEAD_ADAPTER ==
    <<"A", "A", "T", "G", "T", "A", "C", "T", "T", "C", "G", "T", "T", "C",
      "A", "G", "T", "T", "A", "C", "G", "T", "A", "T", "T", "G", "C", "T">>

TAIL_ADAPTER ==
    <<"G", "C", "A", "A", "T", "A", "C", "G", "T", "A", "A", "C", "T", "G",
      "A", "A", "C", "G", "A", "A", "G", "T">>

\* default of build_targets' pcr_primers
PCR_PRIMERS ==
    << <<"A", "C", "T", "T", "G", "C", "C", "T", "G", "T", "C", "G", "C", "T",
         "C", "T", "A", "T", "C", "T", "T", "C", "G", "G", "C", "G", "T", "C",
         "T", "G", "C", "T", "T", "G", "G", "G", "T", "G", "T", "T", "T", "A",
         "A", "C", "C">>,
       <<"T", "T", "T", "C", "T", "G", "T", "T", "G", "G", "T", "G", "C", "T",
         "G", "A", "T", "A", "T", "T", "G", "C", "G", "G", "C", "G", "T", "C",
         "T", "G", "C", "T", "T", "G", "G", "G", "T", "G", "T", "T", "T", "A",
         "A", "C", "C", "T">> >>

trim == 200

(***************************************************************************)
(* build_targets                                                           *)
(***************************************************************************)
\* lines 77-83: the spacer between the two adapter fragments
middle_sequence(n_bases_to_mask_head, n_bases_to_mask_tail, degenerate_bases, n_replacement) ==
    LET d == IF degenerate_bases = None
             THEN n_bases_to_mask_head + n_bases_to_mask_tail
             ELSE degenerate_bases
    IN  IF n_replacement = NoneStr THEN Repeat("N", d) ELSE n_replacement

\* line 86: the tail adapter fragment of the Native motif
native_tail(tail_adapter, n_bases_to_mask_tail) ==
    PySlice(tail_adapter, None, Len(tail_adapter) - n_bases_to_mask_tail)

\* line 90: the tail adapter fragment of the PCR motifs
pcr_tail(tail_adapter, n_bases_to_mask_tail) ==
    PySlice(tail_adapter, None, -n_bases_to_mask_tail)

\* lines 88, 92: the head adapter fragment
head_part(head_adapter, n_bases_to_mask_head) ==
    PySlice(head_adapter, n_bases_to_mask_head, None)

\* the PCR list comprehension: for x in pcr_primers for y in pcr_primers
pcr_motifs(pcr_primers, core) ==
    LET n == Len(pcr_primers)
    IN  SubSeq([k \in 1..(n * n) |->
                   rev_comp(pcr_primers[((k - 1) \div n) + 1]) \o core
                       \o pcr_primers[((k - 1) % n) + 1]], 1, n * n)

build_targets(n_bases_to_mask_head, n_bases_to_mask_tail, degenerate_bases, pcr_primers, head_adapter, tail_adapter, n_replacement) ==
    LET mid == middle_sequence(n_bases_to_mask_head, n_bases_to_mask_tail,
                               degenerate_bases, n_replacement)
        hd  == head_part(head_adapter, n_bases_to_mask_head)
    IN  [Native |-> <<native_tail(tail_adapter, n_bases_to_mask_tail) \o mid \o hd>>,
         PCR    |-> pcr_motifs(pcr_primers,
                               pcr_tail(tail_adapter, n_bases_to_mask_tail) \o mid \o hd)]

(***************************************************************************)
(* The matching primitive (edlib.align, mode HW, task path).  It is not    *)
(* part of the repository: a result is a choice among the results its      *)
(* interface allows.  A result is a record with editDistance, cigar and    *)
(* locations, a list of <<start, end>> in coordinates of the text.         *)
(***************************************************************************)
\* edit distances the primitive may report: around each threshold in use
EditDistances == {8, 9, 44, 45}

MaxLocations == 2

\* a cigar string of a result that carries an alignment
SomeCigar == <<"=">>

\* match windows inside a text of length m
Windows(m) == {w \in (0..(m - 1)) \X (0..(m - 1)) : w[1] <= w[2]}

\* the non-empty lists of at most MaxLocations windows
LocationLists(m) == UNION {[1..k -> Windows(m)] : k \in 1..MaxLocations}

\* Results for an empty text: nothing is aligned, so the result carries no
\* cigar.  Either the whole motif counts as edits and the one location has
\* no start, or no alignment is reported at all (distance -1, no location).
EmptyTextResults(target) ==
    {[editDistance |-> Len(target), cigar |-> NoneStr, locations |-> << <<None, -1>> >>],
     [editDistance |-> -1, cigar |-> NoneStr, locations |-> <<>>]}

edlib_align(target, text) ==
    IF Len(text) = 0 \/ Len(target) = 0
    THEN EmptyTextResults(target)
    ELSE {[editDistance |-> d, cigar |-> SomeCigar, locations |-> l] :
             d \in EditDistances, l \in LocationLists(Len(text))}

(***************************************************************************)
(* find_mid_adaptor                                                        *)
(***************************************************************************)
\* line 100: seq[trim:-trim]
interior(seq) == PySlice(seq, trim, -trim)

\* mutant of argmin: the last index holding the minimum
argmin_last(xs) == CHOOSE i \in 1..Len(xs) : (\A j \in 1..Len(xs) : xs[i] <= xs[j]) /\ (\A j \in (i + 1)..Len(xs) : xs[j] > xs[i])

\* np.argmin: the first index holding the minimum
argmin(xs) == CHOOSE i \in 1..Len(xs) : (\A j \in 1..Len(xs) : xs[i] <= xs[j]) /\ (\A j \in 1..(i - 1) : xs[j] > xs[i])

\* lines 113-114: offsets back in read coordinates when there is an alignment
remap(res) ==
    IF res.cigar # NoneStr
    THEN [res EXCEPT !.locations = [k \in 1..Len(res.locations) |-> <<res.locations[k][1] + trim, res.locations[k][2] + trim>>]]
    ELSE res

\* lines 111-115, on the list `results` of line 101 (one result per target)
find_mid_adaptor(results) ==
    LET i == argmin([k \in 1..Len(results) |-> results[k].editDistance])
    IN  remap(results[i])

\* line 101: the lists of results the primitive may give for `targets`
AlignAll(seq, tgts) ==
    {rs \in [1..Len(tgts) -> UNION {edlib_align(tgts[k], interior(seq)) : k \in 1..Len(tgts)}] :
        \A k \in 1..Len(tgts) : rs[k] \in edlib_align(tgts[k], interior(seq))}

(***************************************************************************)
(* deduplicate_locations_first_key                                         *)
(***************************************************************************)
\* {x: y for x, y in pairs}: a later pair replaces an earlier one of the same key
dict_of(pairs) ==
    LET n == Len(pairs)
        last(k) == CHOOSE i \in 1..n : pairs[i][1] = k /\ \A j \in (i + 1)..n : pairs[j][1] # k
    IN  [k \in {pairs[i][1] : i \in 1..n} |-> pairs[last(k)][2]]

RECURSIVE sorted_keys(_)
sorted_keys(S) ==
    IF S = {} THEN <<>>
    ELSE LET m == CHOOSE x \in S : \A y \in S : x <= y
         IN  <<m>> \o sorted_keys(S \ {m})

\* sorted(list(d.items())): keys are distinct, so the order is that of the keys
sorted_items(d) ==
    LET ks == sorted_keys(DOMAIN d)
    IN  [i \in 1..Len(ks) |-> <<ks[i], d[ks[i]]>>]

\* mutant of deduplicate_locations: the list is not reversed, the last end wins
deduplicate_locations_last(locations) == sorted_items(dict_of(locations))

\* line 130
deduplicate_locations(locations) == sorted_items(dict_of(Reverse(locations)))

deduplicate_locations_first_key(result) ==
    [result EXCEPT !.locations = deduplicate_locations(result.locations)]

(***************************************************************************)
(* The pure functions, each applied to arguments drawn from bounded sets   *)
(***************************************************************************)
TrimAmounts == {0, 5, 14, 25}

SpacerLengths == {None, 0, 11}

Replacements == {NoneStr, <<>>, <<"A", "C">>}

PrimerLists == {PCR_PRIMERS, <<>>, << <<"A", "C">> >>, << <<"A", "C">>, <<"G">>, <<"T", "T", "N">> >>}

BuildCalls ==
    [fn : {"build_targets"}, n_bases_to_mask_head : TrimAmounts, n_bases_to_mask_tail : TrimAmounts,
     degenerate_bases : SpacerLengths, pcr_primers : PrimerLists, n_replacement : Replacements]

MaxDedupLen == 3

DedupWindows == {5, 20} \X {7, 10, 25}

DedupCalls == {[fn |-> "deduplicate_locations_first_key", locations |-> l] : l \in UNION {[1..k -> DedupWindows] : k \in 0..MaxDedupLen}}

\* a read of the given length: bases and qualities in a fixed pattern
BasePattern == <<"A", "C", "G", "T", "N", "G", "A">>

QualPattern == <<"!", "#", "5", "I", "?">>

SeqOf(len) == SubSeq([i \in 1..len |-> BasePattern[(i % 7) + 1]], 1, len)

QualOf(len) == SubSeq([i \in 1..len |-> QualPattern[(i % 5) + 1]], 1, len)

MatchReadLens == {5, 400, 401}

MaxTargets == 3

\* target lists of 1..MaxTargets motifs: prefixes of the default PCR list
TargetLists == {SubSeq(build_targets(5, 14, 11, PCR_PRIMERS, HEAD_ADAPTER, TAIL_ADAPTER, NoneStr).PCR, 1, n) : n \in 1..Min(MaxTargets, 4)}

NotReturned == [done |-> FALSE]

Returned(v) == [done |-> TRUE, value |-> v]

InitRunIdle ==
    /\ args = [passed |-> {}]
    /\ dir = "absent"
    /\ pc = "idle"
    /\ stdout = <<>>
    /\ targets = <<>>
    /\ edit_threshold = None
    /\ edited_reads = {}
    /\ unedited_reads = {}
    /\ split_multiple_times = {}
    /\ fastxs = <<>>
    /\ task = <<>>
    /\ nres = 0
    /\ pkl = <<>>

InitPure ==
    /\ \/ call \in BuildCalls
       \/ call \in DedupCalls
       \/ \E len \in MatchReadLens, tgts \in TargetLists :
             call \in {[fn |-> "find_mid_adaptor", seq |-> SeqOf(len), targets |-> tgts, results |-> rs] : rs \in AlignAll(SeqOf(len), tgts)}
    /\ ret = NotReturned
    /\ InitRunIdle

CallBuildTargets ==
    /\ call.fn = "build_targets" /\ ~ret.done
    /\ ret' = Returned(build_targets(call.n_bases_to_mask_head, call.n_bases_to_mask_tail, call.degenerate_bases,
                                     call.pcr_primers, HEAD_ADAPTER, TAIL_ADAPTER, call.n_replacement))
    /\ UNCHANGED <<call, runvars>>

CallDeduplicate ==
    /\ call.fn = "deduplicate_locations_first_key" /\ ~ret.done
    /\ ret' = Returned(deduplicate_locations_first_key([locations |-> call.locations]).locations)
    /\ UNCHANGED <<call, runvars>>

CallFindMidAdaptor ==
    /\ call.fn = "find_mid_adaptor" /\ ~ret.done
    /\ ret' = Returned(find_mid_adaptor(call.results))
    /\ UNCHANGED <<call, runvars>>

NextPure == CallBuildTargets \/ CallDeduplicate \/ CallFindMidAdaptor

SpecPure == InitPure /\ [][NextPure]_vars

(***************************************************************************)
(* split and process_file.  debug and print_alignment keep their default   *)
(* (False): the side file and the printed alignments are not modelled.     *)
(***************************************************************************)
MaxFiles == 2

MaxReads == 2

MaxWorkers == 2

ReadIds == {"r1", "r2"}

\* lengths of reads: without an interior (below and at 2 * trim) and with one
ReadLens == {5, 400, 402}

\* the values of the keyword arguments a call of split may pass
ArgValues == [output_dir |-> <<"out">>, type |-> "PCR", edit_threshold |-> 45]

\* a call of split: it passes at most one keyword argument, the others take
\* their default
SplitCalls == {[passed |-> p, output_dir |-> ArgValues.output_dir, type |-> ArgValues.type, edit_threshold |-> ArgValues.edit_threshold] : p \in {{}, {"output_dir"}, {"type"}, {"edit_threshold"}}}

\* the order in which a file yields its reads
ReadOrder == <<"r1", "r2">>

\* the read ids of one file: distinct, at most MaxReads of them
FileContents == {SelectSeq(ReadOrder, LAMBDA r : r \in S) : S \in {T \in SUBSET ReadIds : Cardinality(T) <= MaxReads}}

InputDirs == UNION {[1..k -> FileContents] : k \in 0..MaxFiles}

\* a parameter of split: the value passed, or the default of lines 185-194
ParamOutputDir == IF "output_dir" \in args.passed THEN args.output_dir ELSE NoneStr

ParamType == IF "type" \in args.passed THEN args.type ELSE "Native"

ParamEditThreshold == IF "edit_threshold" \in args.passed THEN args.edit_threshold ELSE None

ParamTail == mask_size_default_tail

ParamHead == mask_size_default_head

ParamDegenerateBases == mask_size_default_N

ParamReplacement == NoneStr

NewTask == [status |-> "pending", pos |-> 0, edited_reads |-> {}, unedited_reads |-> {}, split_multiple_times |-> {}, outfh |-> <<>>, last |-> <<>>]

Init ==
    /\ call = [fn |-> "split"]
    /\ ret = NotReturned
    /\ args \in SplitCalls
    /\ dir \in (IF "output_dir" \in args.passed THEN {"absent", "exists"} ELSE {"absent"})
    /\ pc = "start"
    /\ stdout = <<>>
    /\ targets = <<>>
    /\ edit_threshold = None
    /\ edited_reads = {}
    /\ unedited_reads = {}
    /\ split_multiple_times = {}
    /\ fastxs \in InputDirs
    /\ task = <<>>
    /\ nres = 0
    /\ pkl = <<>>

\* mutant of SplitMakeOutputDir: an existing directory is accepted
SplitMakeOutputDirExistOk ==
    /\ pc = "start"
    /\ dir' = (IF ParamOutputDir # NoneStr /\ dir = "absent" THEN "created" ELSE dir)
    /\ pc' = "build"
    /\ UNCHANGED <<call, ret, args, stdout, targets, edit_threshold, edited_reads, unedited_reads, split_multiple_times, fastxs, task, nres, pkl>>

\* lines 212-218
SplitMakeOutputDir ==
    /\ pc = "start"
    /\ IF ParamOutputDir # NoneStr
       THEN IF dir = "absent"
            THEN dir' = "created" /\ pc' = "build" /\ UNCHANGED stdout
            ELSE /\ stdout' = Append(stdout, "The output directory should not pre-exist.")
                 /\ pc' = "exit1"
                 /\ UNCHANGED dir
       ELSE pc' = "build" /\ UNCHANGED <<dir, stdout>>
    /\ UNCHANGED <<call, ret, args, targets, edit_threshold, edited_reads, unedited_reads, split_multiple_times, fastxs, task, nres, pkl>>

\* lines 220-223
split_targets(type, head, tail, degenerate_bases, n_replacement) ==
    build_targets(head, tail, degenerate_bases, PCR_PRIMERS, HEAD_ADAPTER, TAIL_ADAPTER, n_replacement)[type]

\* lines 224-225
split_threshold(type, threshold) == IF threshold = None THEN EDIT_THRESHOLDS[type] ELSE threshold

\* lines 220-228
SplitBuildTargets ==
    /\ pc = "build"
    /\ targets' = split_targets(ParamType, ParamHead, ParamTail, ParamDegenerateBases, ParamReplacement)
    /\ edit_threshold' = split_threshold(ParamType, ParamEditThreshold)
    /\ edited_reads' = {}
    /\ unedited_reads' = {}
    /\ split_multiple_times' = {}
    /\ pc' = "submit"
    /\ UNCHANGED <<call, ret, args, dir, stdout, fastxs, task, nres, pkl>>

\* lines 237-238: executor.map submits one call of process_file per file
SplitSubmit ==
    /\ pc = "submit"
    /\ task' = [f \in 1..Len(fastxs) |-> NewTask]
    /\ pc' = "collect"
    /\ UNCHANGED <<call, ret, args, dir, stdout, targets, edit_threshold, edited_reads, unedited_reads, split_multiple_times, fastxs, nres, pkl>>

Running == {f \in 1..Len(task) : task[f].status = "running"}

\* a record of the output file: '@{read_id}{suffix} {comments}\n{seq}\n+\n{qual}\n'
FastqRecord(read_id, suffix, comments, seq, qual) ==
    [read_id |-> read_id, suffix |-> suffix, comments |-> comments, seq |-> seq, qual |-> qual]

\* the record Fastx yields for a read
CommentOf(read_id) == <<"comment of", read_id>>

\* mutant of below_threshold: a distance equal to the threshold counts as a match
below_threshold_inclusive(editDistance, threshold) == editDistance <= threshold

\* line 161
below_threshold(editDistance, threshold) == editDistance < threshold

\* lines 161-178, for the read (read_id, seq, qual, comments) and the result
\* `found` of find_mid_adaptor; t is the state of the running call
process_read(t, read_id, seq, qual, comments, found, threshold) ==
    IF below_threshold(found.editDistance, threshold)
    THEN LET result == deduplicate_locations_first_key(found)
         IN  IF Len(result.locations) > 1
             THEN [t EXCEPT !.outfh = Append(@, FastqRecord(read_id, "", comments, seq, qual)),
                            !.split_multiple_times = @ \cup {read_id},
                            !.pos = @ + 1,
                            !.last = [read_id |-> read_id, len |-> Len(seq), editDistance |-> result.editDistance, locations |-> result.locations]]
             ELSE IF Len(result.locations) # 1
             THEN \* line 169: ValueError, the call of process_file fails
                  [t EXCEPT !.edited_reads = @ \cup {read_id},
                            !.status = "failed",
                            !.last = [read_id |-> read_id, len |-> Len(seq), editDistance |-> result.editDistance, locations |-> result.locations]]
             ELSE LET start == result.locations[1][1]
                      end   == result.locations[1][2]
                  IN  [t EXCEPT !.edited_reads = @ \cup {read_id},
                                !.outfh = @ \o <<FastqRecord(read_id, "_1", comments, PySlice(seq, None, start), PySlice(qual, None, start)),
                                                 FastqRecord(read_id, "_2", comments, PySlice(seq, end, None), PySlice(qual, end, None))>>,
                                !.pos = @ + 1,
                                !.last = [read_id |-> read_id, len |-> Len(seq), editDistance |-> result.editDistance, locations |-> result.locations]]
    ELSE [t EXCEPT !.outfh = Append(@, FastqRecord(read_id, "", comments, seq, qual)),
                   !.unedited_reads = @ \cup {read_id},
                   !.pos = @ + 1,
                   !.last = [read_id |-> read_id, len |-> Len(seq), editDistance |-> found.editDistance, locations |-> <<>>]]

\* a distance no lower than any other, reported by a motif that does not match
Miss == [editDistance |-> 45, cigar |-> SomeCigar, locations |-> << <<0, 0>> >>]

\* line 101: one motif, the w-th, reports r and the others report Miss
OneHit(tgts, w, r) == [k \in 1..Len(tgts) |-> IF k = w THEN r ELSE Miss]

\* what Fastx yields and line 101 computes for one read, when process_file is
\* called on its own: a read of any length in ReadLens; without an interior,
\* any results of the primitive; with one, any result for one motif
AllReads(tgts) ==
    {[len |-> len, results |-> rs] : len \in {l \in ReadLens : Len(interior(SeqOf(l))) = 0}, rs \in AlignAll(SeqOf(5), tgts)}
    \cup {[len |-> len, results |-> OneHit(tgts, w, r)] :
             len \in {l \in ReadLens : Len(interior(SeqOf(l))) > 0}, w \in 1..Len(tgts), r \in edlib_align(tgts[1], <<"A", "C">>)}

\* the same under split, where the files are processed side by side: a read
\* with one junction, with two, and two reads without interior
RunReads(tgts) ==
    {[len |-> 402, results |-> OneHit(tgts, 1, [editDistance |-> 8, cigar |-> SomeCigar, locations |-> << <<0, 1>> >>])],
     [len |-> 402, results |-> OneHit(tgts, Len(tgts), [editDistance |-> 8, cigar |-> SomeCigar, locations |-> << <<1, 1>>, <<0, 0>> >>])],
     [len |-> 5, results |-> [k \in 1..Len(tgts) |-> [editDistance |-> Len(tgts[k]), cigar |-> NoneStr, locations |-> << <<None, -1>> >>]]],
     [len |-> 5, results |-> [k \in 1..Len(tgts) |-> [editDistance |-> -1, cigar |-> NoneStr, locations |-> <<>>]]]}

ReadPool == IF pc = "direct" THEN AllReads(targets) ELSE RunReads(targets)

Working == pc \in {"collect", "shutdown", "direct"}

\* lines 179-181: once the loop is over the call returns its three sets
returned(t, file) == IF t.status = "running" /\ t.pos = Len(file) THEN [t EXCEPT !.status = "done"] ELSE t

\* the pool takes the calls in the order of submission, MaxWorkers at a time;
\* lines 144-154: the output file is opened (and closed at once for a file
\* without reads)
WorkerStart(f) ==
    /\ Working
    /\ task[f].status = "pending"
    /\ \A g \in 1..(f - 1) : task[g].status # "pending"
    /\ Cardinality(Running) < MaxWorkers
    /\ task' = [task EXCEPT ![f] = returned([@ EXCEPT !.status = "running"], fastxs[f])]
    /\ UNCHANGED <<call, ret, args, dir, pc, stdout, targets, edit_threshold, edited_reads, unedited_reads, split_multiple_times, fastxs, nres, pkl>>

\* lines 155-181: one iteration of the loop over the reads of the file, and
\* the return after the last
WorkerRead(f) ==
    /\ Working
    /\ task[f].status = "running"
    /\ task[f].pos < Len(fastxs[f])
    /\ \E read \in ReadPool :
          task' = [task EXCEPT ![f] = returned(process_read(@, fastxs[f][task[f].pos + 1], SeqOf(read.len), QualOf(read.len),
                                                           CommentOf(fastxs[f][task[f].pos + 1]), find_mid_adaptor(read.results), edit_threshold),
                                               fastxs[f])]
    /\ UNCHANGED <<call, ret, args, dir, pc, stdout, targets, edit_threshold, edited_reads, unedited_reads, split_multiple_times, fastxs, nres, pkl>>

\* mutant of update: the set is replaced by the new one
update_replacing(acc, new) == new

\* lines 240-242: set.update
update(acc, new) == acc \cup new

\* lines 239-242: the next result of the iterator, in the order of the files
SplitCollect ==
    /\ pc = "collect"
    /\ nres < Len(task)
    /\ task[nres + 1].status = "done"
    /\ edited_reads' = update(edited_reads, task[nres + 1].edited_reads)
    /\ unedited_reads' = update(unedited_reads, task[nres + 1].unedited_reads)
    /\ split_multiple_times' = update(split_multiple_times, task[nres + 1].split_multiple_times)
    /\ nres' = nres + 1
    /\ UNCHANGED <<call, ret, args, dir, pc, stdout, targets, edit_threshold, fastxs, task, pkl>>

\* mutant of SplitCollectError: the failed call is skipped and the loop goes on
SplitCollectErrorSwallowed ==
    /\ pc = "collect"
    /\ nres < Len(task)
    /\ task[nres + 1].status = "failed"
    /\ nres' = nres + 1
    /\ UNCHANGED <<call, ret, args, dir, pc, stdout, targets, edit_threshold, edited_reads, unedited_reads, split_multiple_times, fastxs, task, pkl>>

\* line 239: the next result is the exception of a failed call; the iterator
\* cancels the calls not yet started and the exception leaves the loop
SplitCollectError ==
    /\ pc = "collect"
    /\ nres < Len(task)
    /\ task[nres + 1].status = "failed"
    /\ task' = [f \in 1..Len(task) |-> IF task[f].status = "pending" THEN [task[f] EXCEPT !.status = "cancelled"] ELSE task[f]]
    /\ pc' = "shutdown"
    /\ UNCHANGED <<call, ret, args, dir, stdout, targets, edit_threshold, edited_reads, unedited_reads, split_multiple_times, fastxs, nres, pkl>>

\* line 237: leaving the with block waits for the running calls, then the
\* exception propagates out of split
SplitRaise ==
    /\ pc = "shutdown"
    /\ Running = {}
    /\ pc' = "failed"
    /\ UNCHANGED <<call, ret, args, dir, stdout, targets, edit_threshold, edited_reads, unedited_reads, split_multiple_times, fastxs, task, nres, pkl>>

\* lines 244-249: the three outcome files, one after the other
SplitDump ==
    /\ \/ pc = "collect" /\ nres = Len(task) /\ pkl' = Append(pkl, [name |-> "edited.pkl", content |-> edited_reads]) /\ pc' = "dump_unedited"
       \/ pc = "dump_unedited" /\ pkl' = Append(pkl, [name |-> "unedited.pkl", content |-> unedited_reads]) /\ pc' = "dump_multiple"
       \/ pc = "dump_multiple" /\ pkl' = Append(pkl, [name |-> "split_multiple_times.pkl", content |-> split_multiple_times]) /\ pc' = "summary"
    /\ UNCHANGED <<call, ret, args, dir, stdout, targets, edit_threshold, edited_reads, unedited_reads, split_multiple_times, fastxs, task, nres>>

\* lines 250-252
SplitSummary ==
    /\ pc = "summary"
    /\ stdout' = Append(stdout, <<"Split", Cardinality(edited_reads), "reads kept", Cardinality(unedited_reads), "reads">>)
    /\ pc' = "done"
    /\ UNCHANGED <<call, ret, args, dir, targets, edit_threshold, edited_reads, unedited_reads, split_multiple_times, fastxs, task, nres, pkl>>

Next ==
    \/ SplitMakeOutputDir
    \/ SplitBuildTargets
    \/ SplitSubmit
    \/ \E f \in 1..Len(task) : WorkerStart(f) \/ WorkerRead(f)
    \/ SplitCollect
    \/ SplitCollectError
    \/ SplitRaise
    \/ SplitDump
    \/ SplitSummary

Spec == Init /\ [][Next]_vars

(***************************************************************************)
(* process_file called on its own, on one file                             *)
(***************************************************************************)
\* the targets and the threshold of the call: the defaults of each type, and
\* the Native motif with a threshold above its length
FileConfigs == {<<"Native", 9>>, <<"PCR", 45>>, <<"Native", 45>>}

InitFile ==
    /\ call = [fn |-> "process_file"]
    /\ ret = NotReturned
    /\ args = [passed |-> {}]
    /\ dir = "absent"
    /\ pc = "direct"
    /\ stdout = <<>>
    /\ \E c \in FileConfigs :
          /\ targets = split_targets(c[1], mask_size_default_head, mask_size_default_tail, mask_size_default_N, NoneStr)
          /\ edit_threshold = c[2]
    /\ edited_reads = {}
    /\ unedited_reads = {}
    /\ split_multiple_times = {}
    /\ \E file \in FileContents : fastxs = <<file>>
    /\ task = <<NewTask>>
    /\ nres = 0
    /\ pkl = <<>>

NextFile == \E f \in 1..Len(task) : WorkerStart(f) \/ WorkerRead(f)

SpecFile == InitFile /\ [][NextFile]_vars

(***************************************************************************)
(* Properties of split                                                     *)
(***************************************************************************)
FileReadIds(f) == {fastxs[f][i] : i \in 1..Len(fastxs[f])}

InputReadIds == UNION {FileReadIds(f) : f \in 1..Len(fastxs)}

PairwiseDisjoint(a, b, c) == a \cap b = {} /\ a \cap c = {} /\ b \cap c = {}

FilesHolding(id) == {f \in 1..Len(fastxs) : id \in FileReadIds(f)}

\* C1 as stated: after a run the three process-wide sets are pairwise disjoint
\* and their union is the set of all input read ids, the same id possibly
\* occurring in several files.
C1_Original ==
    pc = "done" =>
        /\ PairwiseDisjoint(edited_reads, unedited_reads, split_multiple_times)
        /\ edited_reads \cup unedited_reads \cup split_multiple_times = InputReadIds

\* C1 amended: after a run of split, the union of the three process-wide
\* sets is the set of all input read ids, the three sets returned for each file
\* are pairwise disjoint and cover the ids of that file, and a read id is in two
\* of the process-wide sets only if it occurs in more than one file.
C1_PartitionPerFileAndCover ==
    pc = "done" =>
        /\ edited_reads \cup unedited_reads \cup split_multiple_times = InputReadIds
        /\ \A f \in 1..Len(task) :
              /\ PairwiseDisjoint(task[f].edited_reads, task[f].unedited_reads, task[f].split_multiple_times)
              /\ task[f].edited_reads \cup task[f].unedited_reads \cup task[f].split_multiple_times = FileReadIds(f)
        /\ \A id \in (edited_reads \cap unedited_reads) \cup (edited_reads \cap split_multiple_times) \cup (unedited_reads \cap split_multiple_times) :
              Cardinality(FilesHolding(id)) > 1

\* C1 witness: a completed run over two files of two reads each, no id shared
\* between outcomes, with an unchanged read and a split read in each file
C1_Witness ==
    /\ pc = "done"
    /\ Len(fastxs) = 2 /\ Len(fastxs[1]) = 2 /\ Len(fastxs[2]) = 2
    /\ \A f \in 1..2 : task[f].unedited_reads # {} /\ task[f].edited_reads # {}
    /\ PairwiseDisjoint(edited_reads, unedited_reads, split_multiple_times)

Names(files) == {files[i].name : i \in 1..Len(files)}

SummaryPrinted == \E i \in 1..Len(stdout) : stdout[i] # "The output directory should not pre-exist."

\* C5: each of the three outcome files is written at most once and only after
\* the call of every file has completed; once a call has failed no outcome file
\* is written and no summary is printed, and the run cannot end otherwise than
\* with the failure raised out of split.
C5_OutcomeFilesOnlyAfterAllWorkers ==
    /\ Cardinality(Names(pkl)) = Len(pkl)
    /\ (pkl # <<>> \/ SummaryPrinted) => (nres = Len(task) /\ \A f \in 1..Len(task) : task[f].status = "done")
    /\ (\E f \in 1..Len(task) : task[f].status = "failed") =>
          /\ pkl = <<>>
          /\ ~SummaryPrinted
          /\ pc \in {"collect", "shutdown", "failed"}
          /\ (~ENABLED Next => pc = "failed")

\* C5 witness: the run has failed on the second file after the first was
\* collected
C5_Witness ==
    /\ pc = "failed"
    /\ Len(task) = 2
    /\ task[1].status = "done" /\ task[2].status = "failed"
    /\ nres = 1
    /\ pkl = <<>>

\* the output directory was passed and existed before the call
PreExisting == ParamOutputDir # NoneStr /\ dir = "exists"

\* C6: given an output directory that already exists, split reports the error
\* and exits with status 1 before any work: no target built, no call of
\* process_file submitted, no output file and no outcome file written; given
\* one that does not exist, it creates it and goes on.
C6_ExistingOutputDirExitsBeforeWork ==
    /\ PreExisting =>
          /\ pc \in {"start", "exit1"}
          /\ targets = <<>> /\ task = <<>> /\ pkl = <<>>
          /\ (pc = "exit1" => stdout = <<"The output directory should not pre-exist.">>)
    /\ (ParamOutputDir # NoneStr /\ ~PreExisting /\ pc # "start") => (dir = "created" /\ pc # "exit1")
    /\ (ParamOutputDir = NoneStr) => (dir = "absent" /\ pc # "exit1")

\* C6 witness: split has exited on a directory that existed, with input files
\* waiting
C6_Witness == PreExisting /\ pc = "exit1" /\ fastxs # <<>>

\* the number of degenerate bases of a motif (no adapter or primer holds an N)
SpacerLength(motif) == Len(SelectSeq(motif, LAMBDA c : c = "N"))

\* C8 as stated: when the caller overrides neither the spacer length nor the
\* replacement, the spacer of every motif used for matching has length
\* head trim + tail trim, for the motifs build_targets returns when called
\* directly and for those split builds with its default arguments.
C8_Original ==
    /\ (call.fn = "build_targets" /\ ret.done /\ call.degenerate_bases = None /\ call.n_replacement = NoneStr) =>
          \A k \in 1..Len(ret.value.PCR) : SpacerLength(ret.value.PCR[k]) = call.n_bases_to_mask_head + call.n_bases_to_mask_tail
    /\ (call.fn = "split" /\ pc \notin {"start", "build", "exit1"}) =>
          \A k \in 1..Len(targets) : SpacerLength(targets[k]) = ParamHead + ParamTail

(***************************************************************************)
(* Properties of process_file                                              *)
(***************************************************************************)
Decided == {f \in 1..Len(task) : task[f].last # <<>>}

Unchanged(f) == FastqRecord(task[f].last.read_id, "", CommentOf(task[f].last.read_id), SeqOf(task[f].last.len), QualOf(task[f].last.len))

LastRecord(f) == task[f].outfh[Len(task[f].outfh)]

OnlyIn(id, set, other1, other2) == id \in set /\ id \notin other1 /\ id \notin other2

WrittenUnchanged(f) == Len(task[f].outfh) >= 1 /\ LastRecord(f) = Unchanged(f)

WrittenSplit(f) ==
    /\ Len(task[f].outfh) >= 2
    /\ task[f].outfh[Len(task[f].outfh) - 1].read_id = task[f].last.read_id
    /\ task[f].outfh[Len(task[f].outfh) - 1].suffix = "_1"
    /\ LastRecord(f).read_id = task[f].last.read_id
    /\ LastRecord(f).suffix = "_2"

\* C2: with d the winning edit distance, t the threshold and the resolved
\* location list: d >= t writes the read unchanged and records it in unedited;
\* d < t with more than one location writes it unchanged and records it only in
\* split_multiple_times; d < t with exactly one location splits it and records
\* it in edited.  So d = t - 1 with one location splits, d = t never does.
C2_DecisionByThresholdAndLocations ==
    \A f \in Decided :
        LET l == task[f].last
            t == task[f]
        IN  /\ (l.editDistance >= edit_threshold) =>
                  OnlyIn(l.read_id, t.unedited_reads, t.edited_reads, t.split_multiple_times) /\ WrittenUnchanged(f)
            /\ (l.editDistance < edit_threshold /\ Len(l.locations) > 1) =>
                  OnlyIn(l.read_id, t.split_multiple_times, t.edited_reads, t.unedited_reads) /\ WrittenUnchanged(f)
            /\ (l.editDistance < edit_threshold /\ Len(l.locations) = 1) =>
                  OnlyIn(l.read_id, t.edited_reads, t.unedited_reads, t.split_multiple_times) /\ WrittenSplit(f)

\* C2 witness: a read one unit below the threshold with one location was split
\* right after a read at the threshold was written unchanged
C2_Witness ==
    \E f \in Decided :
        /\ task[f].last.editDistance = edit_threshold - 1
        /\ Len(task[f].last.locations) = 1
        /\ task[f].last.len = 402
        /\ Len(task[f].outfh) = 3
        /\ task[f].unedited_reads # {}
        /\ WrittenSplit(f)

\* C3 as stated: a Split decision with offsets (start, end) on a read of length
\* L emits two consecutive records <id>_1 and <id>_2 with the original comment;
\* len(left) + len(right) = L - (end - start) and left + seq[start:end] + right
\* is the sequence, and likewise for the quality string.
C3_Original ==
    \A f \in Decided :
        (task[f].last.editDistance < edit_threshold /\ Len(task[f].last.locations) = 1) =>
            LET start == task[f].last.locations[1][1]
                end   == task[f].last.locations[1][2]
                L     == task[f].last.len
                left  == task[f].outfh[Len(task[f].outfh) - 1]
                right == task[f].outfh[Len(task[f].outfh)]
            IN  /\ WrittenSplit(f)
                /\ left.comments = CommentOf(task[f].last.read_id)
                /\ right.comments = CommentOf(task[f].last.read_id)
                /\ Len(left.seq) + Len(right.seq) = L - (end - start)
                /\ left.seq \o PySlice(SeqOf(L), start, end) \o right.seq = SeqOf(L)
                /\ Len(left.qual) + Len(right.qual) = L - (end - start)
                /\ left.qual \o PySlice(QualOf(L), start, end) \o right.qual = QualOf(L)

\* C4 as stated: a read of fewer than 400 bases is written unchanged and
\* recorded in unedited, and the call of process_file does not fail on it,
\* whatever the primitive reports for its empty interior.
C4_Original ==
    \A f \in Decided :
        task[f].last.len < 400 =>
            /\ task[f].status # "failed"
            /\ OnlyIn(task[f].last.read_id, task[f].unedited_reads, task[f].edited_reads, task[f].split_multiple_times)
            /\ WrittenUnchanged(f)

(***************************************************************************)
(* Properties of the pure functions                                        *)
(***************************************************************************)
BuildReturned == call.fn = "build_targets" /\ ret.done

\* C7 as stated: for every head and tail trim amount (0 included) and every primer list,
\* build_targets returns for PCR one motif per ordered pair (x, y) of primers,
\* in primer-list order, each equal to rev_comp(x) + M + y, M being the single
\* Native motif of the same call.
C7_Original ==
    BuildReturned =>
        LET n == Len(call.pcr_primers)
            M == ret.value.Native[1]
        IN  /\ Len(ret.value.Native) = 1
            /\ Len(ret.value.PCR) = n * n
            /\ \A i \in 1..n, j \in 1..n :
                  ret.value.PCR[(i - 1) * n + j] = rev_comp(call.pcr_primers[i]) \o M \o call.pcr_primers[j]

DedupReturned == call.fn = "deduplicate_locations_first_key" /\ ret.done

Starts(l) == {l[i][1] : i \in 1..Len(l)}

\* the end offset of the first entry of l whose start is x
FirstEnd(l, x) == l[CHOOSE i \in 1..Len(l) : l[i][1] = x /\ \A j \in 1..(i - 1) : l[j][1] # x][2]

\* C9: deduplicate_locations_first_key returns exactly one entry per distinct
\* start offset of the list it is given, with the end offset of the first entry
\* of that start, sorted ascending by start; [(5,10),(5,7),(20,25)] gives
\* [(5,10),(20,25)].
C9_DedupKeepsFirstEndSortedByStart ==
    DedupReturned =>
        LET l == call.locations
            r == ret.value
        IN  /\ Starts(r) = Starts(l)
            /\ Len(r) = Cardinality(Starts(l))
            /\ \A i \in 1..Len(r) : r[i][2] = FirstEnd(l, r[i][1])
            /\ \A i \in 1..Len(r), j \in 1..Len(r) : i < j => r[i][1] < r[j][1]
            /\ (l = << <<5, 10>>, <<5, 7>>, <<20, 25>> >> => r = << <<5, 10>>, <<20, 25>> >>)

\* C9 witness: a list whose repeated start has different ends, out of order
C9_Witness ==
    /\ DedupReturned
    /\ call.locations = << <<20, 25>>, <<5, 10>>, <<5, 7>> >>
    /\ ret.value = << <<5, 10>>, <<20, 25>> >>

MatchReturned == call.fn = "find_mid_adaptor" /\ ret.done

Distance(k) == call.results[k].editDistance

\* the earliest index of call.results holding the minimum edit distance
FirstMinimum == CHOOSE i \in 1..Len(call.results) : (\A j \in 1..Len(call.results) : Distance(i) <= Distance(j)) /\ (\A j \in 1..(i - 1) : Distance(j) # Distance(i))

Shifted(l, by) == [k \in 1..Len(l) |-> <<l[k][1] + by, l[k][2] + by>>]

\* C10 as stated: find_mid_adaptor returns the result of the earliest motif of
\* minimum edit distance, and every location of the returned result is the
\* primitive's location with 200 added to start and end.
C10_Original ==
    MatchReturned =>
        /\ ret.value.editDistance = call.results[FirstMinimum].editDistance
        /\ ret.value.cigar = call.results[FirstMinimum].cigar
        /\ ret.value.locations = Shifted(call.results[FirstMinimum].locations, 200)

\* C10 amended: find_mid_adaptor returns the result of the earliest motif of
\* minimum edit distance; its locations are the primitive's with 200 added to
\* start and end when the result carries an alignment (cigar is not None), and
\* the primitive's locations unchanged when it carries none.
C10_FirstMinimumShiftedWhenAligned ==
    MatchReturned =>
        /\ ret.value.editDistance = call.results[FirstMinimum].editDistance
        /\ ret.value.cigar = call.results[FirstMinimum].cigar
        /\ ret.value.locations =
              IF call.results[FirstMinimum].cigar # NoneStr
              THEN Shifted(call.results[FirstMinimum].locations, 200)
              ELSE call.results[FirstMinimum].locations

\* C10 witness: two motifs tie at the minimum with different locations, and the
\* result returned carries an alignment
C10_Witness ==
    /\ MatchReturned
    /\ Len(call.results) >= 2
    /\ Distance(1) = Distance(2)
    /\ \A k \in 1..Len(call.results) : Distance(1) <= Distance(k)
    /\ call.results[1].locations # call.results[2].locations
    /\ ret.value.cigar # NoneStr
    /\ ret.value.locations = << <<200, 200>> >>

====
